---------------------------- MODULE Spec2Model ----------------------------
(* A model of the state synchronisation core of the music-time extension:  *)
(*   lib/DataController.ts            connection-check loops, user status, *)
(*                                    playlist population, liked-song seed *)
(*   lib/music/MusicPlaylistProvider.ts   playSelectedItem                 *)
(* JavaScript runs these on one cooperative thread: every action below is  *)
(* one run-to-suspension segment (from a call, a timer firing or a promise *)
(* resolving up to the next await on a remote call).                       *)
EXTENDS Integers, Sequences, FiniteSets, Bags, TLC

(***************************************************************************)
(* Bounds                                                                  *)
(***************************************************************************)
MaxTry == 2         \* largest tryCountUntilFound an outside caller passes
MaxCalls == 2       \* outside calls of refetch*ConnectStatusLazily
MaxAuths == 2       \* longest user.auths list in a response
MaxLiked == 65      \* longest liked-song list handed to the seeding
MaxPasses == 2      \* populateSpotifyPlaylists passes started
MaxRequests == 2    \* playSelectedItem requests made
MaxAvail == 3       \* serverIsAvailable calls made
MaxEvents == 2      \* integration-connection socket events handled

(***************************************************************************)
(* Program constants                                                       *)
(***************************************************************************)
ConnectCheckDelay == 10000
HardRefreshDelay == 2000
PlaylistRetryDelay == 3000
GatherDelay == 1000
launchTimeout == 4000
batch_size == 30

Conds == {"slack", "spotify"}
NULL == "null"
SET == "timer"

VARIABLES
    jwt,                \* getItem("jwt") is truthy
    spotify_refresh_token, \* getItem("spotify_refresh_token") is truthy
    fetchTimeout,       \* slackFetchTimeout / spotifyFetchTimeout
    timers,             \* bag of the timers setTimeout has armed and not yet run
    handlers,           \* bag of connect-status handlers awaiting their remote call
    accessInfo,         \* which integrations had their access info updated
    lastStatus,         \* the latest getMusicTimeUserStatus response and outcome
    loop,               \* per condition: bookkeeping of the current check loop
    calls,              \* outside calls made so far
    notified,           \* per condition: success notifications shown
    spotifyLikedSongs,  \* dataMgr.spotifyLikedSongs (a list of track numbers)
    seedPuts,           \* PUT /music/session/seed requests issued, in order
    seedDone,           \* indexes of seedPuts whose request has completed
    executed,           \* editor commands run by fired timers
    rawPlaylists,       \* dataMgr.rawPlaylists
    origRawPlaylistOrder, \* dataMgr.origRawPlaylistOrder
    currentDevices,     \* dataMgr.currentDevices
    passes,             \* the populateSpotifyPlaylists passes started, in order
    selectedPlaylist,   \* musicMgr.selectedPlaylist
    selectedTrackItem,  \* musicMgr.selectedTrackItem
    currentProvider,    \* musicMgr.currentProvider
    loading,            \* the controls' loading state (syncControls)
    requests,           \* the playSelectedItem requests made, in order
    commands,           \* play commands issued to the backends
    cache,              \* cacheMgr's entry for the key serverAvailable
    availCalls,         \* the serverIsAvailable calls made, in order
    authCallbackState,  \* the stored auth callback state
    events              \* the integration-connection socket events handled

pollVars == <<jwt, spotify_refresh_token, fetchTimeout, timers, handlers,
              accessInfo, lastStatus, loop, calls, notified, executed>>
seedVars == <<spotifyLikedSongs, seedPuts, seedDone>>
listVars == <<rawPlaylists, origRawPlaylistOrder, currentDevices, passes>>
playVars == <<selectedPlaylist, selectedTrackItem, currentProvider, loading,
              requests, commands>>

sessionVars == <<cache, availCalls, authCallbackState, events>>

slackFetchTimeout == fetchTimeout["slack"]
spotifyFetchTimeout == fetchTimeout["spotify"]

(***************************************************************************)
(* Helpers                                                                 *)
(***************************************************************************)
One(x) == SetToBag({x})

\* number of elements of bag b satisfying the condition name c
CondPart(b, c) == [t \in {u \in BagToSet(b) : u.cond = c} |-> b[t]]
CountCond(b, c) == BagCardinality(CondPart(b, c))
KindPart(b, k) == [t \in {u \in BagToSet(b) : u.kind = k} |-> b[t]]

SeqsUpTo(S, n) == UNION {[1..k -> S] : k \in 0..n}

(***************************************************************************)
(* Remote responses                                                        *)
(***************************************************************************)
Auths == {[type |-> "spotify", access_token |-> TRUE],
          [type |-> "spotify", access_token |-> FALSE],
          [type |-> "slack", access_token |-> TRUE]}

AuthLists == SeqsUpTo(Auths, MaxAuths)

States == {"OK", "ANONYMOUS", "NOT_FOUND", "UNKNOWN"}
ABSENT == "absent"

NoUser == [present |-> FALSE, auths |-> <<>>]

\* a response of GET /users/plugin/state
FailedResp == [ok |-> FALSE, data |-> FALSE, state |-> ABSENT, jwt |-> FALSE,
               user |-> NoUser]
NoDataResp == [ok |-> TRUE, data |-> FALSE, state |-> ABSENT, jwt |-> FALSE,
               user |-> NoUser]
RespsWith(lists) ==
    {FailedResp, NoDataResp} \cup
    [ok : {TRUE}, data : {TRUE}, state : States \cup {ABSENT}, jwt : BOOLEAN,
     user : {NoUser} \cup [present : {TRUE}, auths : lists]]
StateResps == RespsWith(AuthLists)
\* the responses the connect-status handlers are run on: a failed one, and states OK
\* and ANONYMOUS with no user, no auth record, a spotify one or a slack one
HandlerResps ==
    {FailedResp} \cup
    {r \in RespsWith({<<>>, <<[type |-> "spotify", access_token |-> TRUE]>>,
                     <<[type |-> "slack", access_token |-> TRUE]>>}) :
        r.state \in {"OK", "ANONYMOUS"}}

\* a response of GET /users/me as getUser reads it
UserResps ==
    {NoUser} \cup
    [present : {TRUE},
     auths : {<<>>, <<[type |-> "slack", access_token |-> TRUE]>>,
              <<[type |-> "spotify", access_token |-> TRUE]>>}]

IsSpotifyAuth(a) == a.type = "spotify" /\ a.access_token
IsSlackAuth(a) == a.type = "slack"
IsSpotifyType(a) == a.type = "spotify"
HasSpotifyAuth(auths) == \E i \in 1..Len(auths) : IsSpotifyAuth(auths[i])
HasSlackAuth(auths) == \E i \in 1..Len(auths) : IsSlackAuth(auths[i])
HasSpotifyType(auths) == \E i \in 1..Len(auths) : IsSpotifyType(auths[i])

(***************************************************************************)
(* getMusicTimeUserStatus (DataController.ts 156-214)                      *)
(***************************************************************************)
\* line 161: a token is available
HasToken(j, r) == j \/ r

StateOfNoDefault(resp) == resp.state
\* line 169: the state of a response that carries data
StateOf(resp) == IF resp.state = ABSENT THEN "UNKNOWN" ELSE resp.state

FoundSpotifyType(user) == HasSpotifyType(user.auths)
\* lines 187-205: the auths loop's verdict
FoundSpotifyAuth(user) == HasSpotifyAuth(user.auths)

Sentinel == [raised |-> FALSE, loggedOn |-> FALSE, state |-> "UNKNOWN"]
\* reading user.auths of an undefined user (line 191) rejects the promise
Raised == [raised |-> TRUE, loggedOn |-> FALSE, state |-> "none"]

\* lines 167-213: what the call yields once softwareGet has answered
UserStatusOf(resp) ==
    IF resp.ok /\ resp.data
    THEN IF StateOf(resp) = "OK"
         THEN IF resp.user.present
              THEN [raised |-> FALSE, loggedOn |-> FoundSpotifyAuth(resp.user),
                    state |-> StateOf(resp)]
              ELSE Raised
         ELSE [raised |-> FALSE, loggedOn |-> FALSE, state |-> StateOf(resp)]
    ELSE Sentinel

\* lines 180-183: setItem("jwt", stateData.jwt), done before user is read
JwtAfter(j, resp) ==
    j \/ (resp.ok /\ resp.data /\ StateOf(resp) = "OK" /\ resp.jwt)

\* lines 191-205: updateSpotifyAccessInfo / updateSlackAccessInfo
AccessAfter(acc, resp) ==
    IF resp.ok /\ resp.data /\ StateOf(resp) = "OK" /\ resp.user.present
    THEN [spotify |-> acc.spotify \/ HasSpotifyAuth(resp.user.auths),
          slack |-> acc.slack \/ HasSlackAuth(resp.user.auths)]
    ELSE acc

NoStatus == [called |-> FALSE, token |-> FALSE, fetched |-> FALSE,
             resp |-> FailedResp, result |-> Sentinel]

(***************************************************************************)
(* seedLikedSongSessions (DataController.ts 434-474)                       *)
(***************************************************************************)
NoLiked == [present |-> FALSE, tracks |-> <<>>]
Liked(n) == [present |-> TRUE, tracks |-> [i \in 1..n |-> i]]

\* line 463: the batch is sent after the track at (0-based) index i is pushed
BatchFull(i) == i > 0 /\ i % batch_size = 0

\* lines 451-472: the loop from index i on, with the batch built so far and
\* the requests already sent
DropRemaining(batch, sent) == sent
\* lines 470-472: send the remaining
SendRemaining(batch, sent) ==
    IF Len(batch) > 0 THEN Append(sent, batch) ELSE sent

RECURSIVE SeedLoop(_, _, _, _)
SeedLoop(songs, i, batch, sent) ==
    IF i >= Len(songs)
    THEN SendRemaining(batch, sent)
    ELSE LET b == Append(batch, songs[i + 1])
         IN  IF BatchFull(i)
             THEN SeedLoop(songs, i + 1, <<>>, Append(sent, b))
             ELSE SeedLoop(songs, i + 1, b, sent)

\* the requests one call issues, in order: each is the list of tracks it carries
seedLikedSongSessions(likedSongs) ==
    IF likedSongs.present /\ Len(likedSongs.tracks) > 0
    THEN SeedLoop(likedSongs.tracks, 0, <<>>, <<>>)
    ELSE <<>>

(***************************************************************************)
(* Connection-check loops (DataController.ts 230-318)                      *)
(***************************************************************************)
\* a setTimeout entry: what it runs (kind), after which delay, and what its
\* closure holds: the condition and count of a check, the pass or request
\* that armed it (by), the isTrack argument of a deferred web play
Timer(kind, delay, c, n, by, isTrack) ==
    [kind |-> kind, delay |-> delay, cond |-> c, n |-> n, by |-> by,
     isTrack |-> isTrack]
CheckTimer(c, n) == Timer("check", ConnectCheckDelay, c, n, 0, FALSE)
RecheckTimer == CheckTimer("spotify", 0)
\* lines 314-316
HardRefreshTimer ==
    Timer("hardRefreshPlaylist", HardRefreshDelay, "none", 0, 0, FALSE)

NoTimerGuard(c, ft) == FALSE
\* lines 231, 254: the outstanding-timer guard
TimerGuard(c, ft) == ft[c] # NULL

\* refetchSlackConnectStatusLazily / refetchSpotifyConnectStatusLazily:
\* the handle and the timers after a call with count n
RefetchTimeout(c, ft) ==
    IF TimerGuard(c, ft) THEN ft ELSE [ft EXCEPT ![c] = SET]
RefetchTimers(c, n, ft, tm) ==
    IF TimerGuard(c, ft) THEN tm ELSE tm (+) One(CheckTimer(c, n))

TryAgainAtZero(n) == n >= 0
TryAgainAboveOne(n) == n > 1
\* lines 244, 267: another attempt is left
TryAgain(n) == n > 0

\* bookkeeping of a loop: the count it was started with, the checks its
\* handlers rescheduled, whether it ran alone (no outside call armed a timer
\* while its handler was awaiting), whether an outside call was suppressed by
\* the guard, whether the condition was met, whether a handler raised
NoLoop == [start |-> -1, resched |-> 0, solo |-> FALSE, suppressed |-> FALSE,
           met |-> FALSE, raised |-> FALSE]

Idle(c) ==
    /\ fetchTimeout[c] = NULL
    /\ CountCond(timers, c) = 0
    /\ CountCond(handlers, c) = 0

\* lines 242-247, 265-270: the handler's branch for an unmet condition, from
\* the handle ft and the timers tm it finds
Unmet(c, n, ft, tm) ==
    IF TryAgain(n)
    THEN /\ fetchTimeout' = RefetchTimeout(c, ft)
         /\ timers' = RefetchTimers(c, n - 1, ft, tm)
         /\ loop' = IF TimerGuard(c, ft) THEN loop
                    ELSE [loop EXCEPT ![c].resched = @ + 1]
    ELSE /\ fetchTimeout' = ft
         /\ timers' = tm
         /\ loop' = loop

\* an outside caller starts a loop
CallRefetch(c, n) ==
    /\ UNCHANGED sessionVars
    /\ UNCHANGED <<listVars, playVars>>
    /\ calls < MaxCalls
    /\ calls' = calls + 1
    /\ fetchTimeout' = RefetchTimeout(c, fetchTimeout)
    /\ timers' = RefetchTimers(c, n, fetchTimeout, timers)
    /\ loop' = IF TimerGuard(c, fetchTimeout)
               THEN [loop EXCEPT ![c].suppressed = TRUE]
               ELSE IF CountCond(handlers, c) = 0
                    THEN [loop EXCEPT ![c] = [NoLoop EXCEPT !.start = n,
                                                            !.solo = TRUE]]
                    ELSE [loop EXCEPT ![c].solo = FALSE]
    /\ UNCHANGED <<jwt, spotify_refresh_token, handlers, accessInfo,
                   lastStatus, notified, executed>>
    /\ UNCHANGED seedVars

\* the slack timer runs: lines 235-236, then getSlackOauth up to its await
SlackTimerFires(t) ==
    /\ UNCHANGED sessionVars
    /\ UNCHANGED <<listVars, playVars>>
    /\ BagIn(t, timers) /\ t.kind = "check" /\ t.cond = "slack"
    /\ IF jwt
       THEN /\ handlers' = handlers (+) One([cond |-> "slack", n |-> t.n])
            /\ fetchTimeout' = [fetchTimeout EXCEPT !["slack"] = NULL]
            /\ timers' = timers (-) One(t)
            /\ loop' = loop
       ELSE /\ handlers' = handlers
            /\ Unmet("slack", t.n, [fetchTimeout EXCEPT !["slack"] = NULL],
                     timers (-) One(t))
    /\ UNCHANGED <<jwt, spotify_refresh_token, accessInfo, lastStatus, calls,
                   notified, executed>>
    /\ UNCHANGED seedVars

\* getUser answers: getSlackOauth 141-153 and slackConnectStatusHandler 242-250
SlackHandlerResumes(h, user) ==
    /\ UNCHANGED sessionVars
    /\ UNCHANGED <<listVars, playVars>>
    /\ BagIn(h, handlers) /\ h.cond = "slack"
    /\ handlers' = handlers (-) One(h)
    /\ IF user.present /\ HasSlackAuth(user.auths)
       THEN /\ accessInfo' = [accessInfo EXCEPT !.slack = TRUE]
            /\ notified' = [notified EXCEPT !["slack"] = @ + 1]
            /\ loop' = [loop EXCEPT !["slack"].met = TRUE]
            /\ UNCHANGED <<fetchTimeout, timers>>
       ELSE /\ Unmet("slack", h.n, fetchTimeout, timers)
            /\ UNCHANGED <<accessInfo, notified>>
    /\ UNCHANGED <<jwt, spotify_refresh_token, lastStatus, calls, executed>>
    /\ UNCHANGED seedVars

\* the spotify timer runs: lines 258-259, then getMusicTimeUserStatus up to
\* its await, or through to the handler's end when no token is stored
SpotifyTimerFires(t) ==
    /\ UNCHANGED sessionVars
    /\ UNCHANGED <<listVars, playVars>>
    /\ BagIn(t, timers) /\ t.kind = "check" /\ t.cond = "spotify"
    /\ IF HasToken(jwt, spotify_refresh_token)
       THEN /\ handlers' = handlers (+) One([cond |-> "spotify", n |-> t.n])
            /\ fetchTimeout' = [fetchTimeout EXCEPT !["spotify"] = NULL]
            /\ timers' = timers (-) One(t)
            /\ loop' = loop
       ELSE /\ handlers' = handlers
            /\ Unmet("spotify", t.n,
                     [fetchTimeout EXCEPT !["spotify"] = NULL],
                     timers (-) One(t))
    /\ UNCHANGED <<jwt, spotify_refresh_token, accessInfo, lastStatus, calls,
                   notified, executed>>
    /\ UNCHANGED seedVars

\* softwareGet answers: getMusicTimeUserStatus 167-213, then
\* spotifyConnectStatusHandler 265-317 (populateSpotifyUser and
\* populateLikedSongs fetch; liked is what getSpotifyLikedSongs returns)
SpotifyHandlerResumes(h, resp, liked) ==
    /\ UNCHANGED sessionVars
    /\ UNCHANGED <<listVars, playVars>>
    /\ BagIn(h, handlers) /\ h.cond = "spotify"
    /\ handlers' = handlers (-) One(h)
    /\ jwt' = JwtAfter(jwt, resp)
    /\ accessInfo' = AccessAfter(accessInfo, resp)
    /\ LET r == UserStatusOf(resp)
       IN  IF r.raised
           THEN /\ loop' = [loop EXCEPT !["spotify"].raised = TRUE]
                /\ UNCHANGED <<fetchTimeout, timers, notified>>
                /\ UNCHANGED seedVars
           ELSE IF ~r.loggedOn
           THEN /\ Unmet("spotify", h.n, fetchTimeout, timers)
                /\ UNCHANGED notified
                /\ UNCHANGED seedVars
           ELSE /\ notified' = [notified EXCEPT !["spotify"] = @ + 1]
                /\ loop' = [loop EXCEPT !["spotify"].met = TRUE]
                /\ spotifyLikedSongs' = liked
                /\ seedPuts' = seedPuts \o seedLikedSongSessions(liked)
                /\ timers' = timers (+) One(HardRefreshTimer)
                /\ UNCHANGED <<fetchTimeout, seedDone>>
    /\ UNCHANGED <<spotify_refresh_token, lastStatus, calls, executed>>

\* the 2000 ms timer of line 314 runs
HardRefreshFires ==
    /\ UNCHANGED sessionVars
    /\ UNCHANGED <<listVars, playVars>>
    /\ BagIn(HardRefreshTimer, timers)
    /\ timers' = timers (-) One(HardRefreshTimer)
    /\ executed' = executed \cup {"musictime.hardRefreshPlaylist"}
    /\ UNCHANGED <<jwt, spotify_refresh_token, fetchTimeout, handlers,
                   accessInfo, lastStatus, loop, calls, notified>>
    /\ UNCHANGED seedVars

\* a PUT /music/session/seed request completes
SeedPutCompletes(i) ==
    /\ UNCHANGED sessionVars
    /\ UNCHANGED <<listVars, playVars>>
    /\ i \in 1..Len(seedPuts) /\ i \notin seedDone
    /\ seedDone' = seedDone \cup {i}
    /\ UNCHANGED <<spotifyLikedSongs, seedPuts>>
    /\ UNCHANGED pollVars

\* getMusicTimeUserStatus called on its own, from the call to its return
GetMusicTimeUserStatus(resp) ==
    /\ UNCHANGED sessionVars
    /\ UNCHANGED <<listVars, playVars>>
    /\ IF HasToken(jwt, spotify_refresh_token)
       THEN /\ jwt' = JwtAfter(jwt, resp)
            /\ accessInfo' = AccessAfter(accessInfo, resp)
            /\ lastStatus' = [called |-> TRUE, token |-> TRUE,
                              fetched |-> TRUE, resp |-> resp,
                              result |-> UserStatusOf(resp)]
       ELSE /\ lastStatus' = [called |-> TRUE, token |-> FALSE,
                              fetched |-> FALSE, resp |-> FailedResp,
                              result |-> Sentinel]
            /\ UNCHANGED <<jwt, accessInfo>>
    /\ UNCHANGED <<spotify_refresh_token, fetchTimeout, timers, handlers, loop,
                   calls, notified, executed>>
    /\ UNCHANGED seedVars

(***************************************************************************)
(* populateSpotifyPlaylists, populateSpotifyDevices (DataController.ts     *)
(* 347-408)                                                                *)
(***************************************************************************)
PlaylistLists == {<<>>, <<"A">>, <<"A", "B">>}
ErrorStatuses == {400, 429, 503}

\* what runSpotifyCommand hands back: a list (no status field, written 0) or
\* an error object with its status
Result(status, items) == [status |-> status, items |-> items]
FetchResults ==
    {Result(0, l) : l \in PlaylistLists} \cup
    {Result(e, <<>>) : e \in ErrorStatuses}
DeviceResults ==
    {Result(0, <<>>), Result(0, <<"device">>)} \cup
    {Result(e, <<>>) : e \in ErrorStatuses}

FetchFailedOrEmpty(res) == res.items = <<>>
FetchFailedAbove(res) == res.status # 0 /\ res.status > 400
\* line 375
FetchFailed(res) == res.status # 0 /\ res.status >= 400
RateLimitedOrFailed(res) == res.status # 0 /\ res.status >= 429
\* line 397
RateLimited(res) == res.status # 0 /\ res.status = 429

RetryTimer(p) ==
    Timer("populateSpotifyPlaylists", PlaylistRetryDelay, "none", 0, p, FALSE)
GatherTimer(p) ==
    Timer("gatherMusicInfoRequest", GatherDelay, "none", 0, p, FALSE)

NoLists == <<<<>>, <<>>>>

\* lines 348-358: a pass from its call to the await on the device fetch
\* (reconcilePlaylists, fetchSavedPlaylists, populateGeneratedPlaylists and
\* populatePlayerContext belong to MusicDataManager and the player context;
\* nothing in this file has them write the two raw lists).
\* A pass records the lists it found (before), the device answer it got
\* (until the pass ends) and, once it has ended, the fetch status it got,
\* the lists it left (after) and the retries it armed.
StartPass(origin) ==
    /\ Len(passes) < MaxPasses
    /\ origRawPlaylistOrder' = <<>>
    /\ rawPlaylists' = <<>>
    /\ passes' = Append(passes,
           [pc |-> "devices", origin |-> origin,
            before |-> <<rawPlaylists, origRawPlaylistOrder>>,
            devices |-> Result(0, <<>>),
            after |-> NoLists, status |-> 0, retries |-> 0])
    /\ UNCHANGED currentDevices

\* an outside caller (a refresh command) runs populateSpotifyPlaylists
PopulateSpotifyPlaylists ==
    /\ UNCHANGED sessionVars
    /\ StartPass("call")
    /\ UNCHANGED <<pollVars, seedVars, playVars>>

\* the 3000 ms timer of line 377 runs
RetryFires(t) ==
    /\ UNCHANGED sessionVars
    /\ BagIn(t, timers) /\ t.kind = "populateSpotifyPlaylists"
    /\ StartPass("retry")
    /\ timers' = timers (-) One(t)
    /\ UNCHANGED <<jwt, spotify_refresh_token, fetchTimeout, handlers,
                   accessInfo, lastStatus, loop, calls, notified, executed>>
    /\ UNCHANGED <<seedVars, playVars>>

\* the device fetch answers: populateSpotifyDevices 397-407, then the pass
\* goes on to the playlist fetch (lines 361-372)
DevicesReturn(p, devices) ==
    /\ UNCHANGED sessionVars
    /\ p \in 1..Len(passes) /\ passes[p].pc = "devices"
    /\ passes' = [passes EXCEPT ![p].pc = "playlists", ![p].devices = devices]
    /\ IF RateLimited(devices)
       THEN UNCHANGED <<currentDevices, timers>>
       ELSE /\ currentDevices' = devices
            /\ timers' = timers (+) One(GatherTimer(p))
    /\ UNCHANGED <<rawPlaylists, origRawPlaylistOrder>>
    /\ UNCHANGED <<jwt, spotify_refresh_token, fetchTimeout, handlers,
                   accessInfo, lastStatus, loop, calls, notified, executed>>
    /\ UNCHANGED <<seedVars, playVars>>

ArmsRetryIfNonePending(res, tm) ==
    FetchFailed(res) /\ ~\E t \in BagToSet(tm) : t.kind = "populateSpotifyPlaylists"
\* lines 375-379: the retry is armed on the failure alone, whatever timers
\* tm are pending
ArmsRetry(res, tm) == FetchFailed(res)

\* the playlist fetch answers: lines 375-389
PlaylistsReturn(p, res) ==
    /\ UNCHANGED sessionVars
    /\ p \in 1..Len(passes) /\ passes[p].pc = "playlists"
    /\ IF ArmsRetry(res, timers)
       THEN /\ timers' = timers (+) One(RetryTimer(p))
            /\ UNCHANGED <<rawPlaylists, origRawPlaylistOrder>>
       ELSE /\ origRawPlaylistOrder' = res.items
            /\ rawPlaylists' = res.items
            /\ UNCHANGED timers
    /\ passes' = [passes EXCEPT
           ![p].pc = "done",
           ![p].devices = Result(0, <<>>),
           ![p].status = res.status,
           ![p].after = <<rawPlaylists', origRawPlaylistOrder'>>,
           ![p].retries = IF ArmsRetry(res, timers) THEN @ + 1 ELSE @]
    /\ UNCHANGED currentDevices
    /\ UNCHANGED <<jwt, spotify_refresh_token, fetchTimeout, handlers,
                   accessInfo, lastStatus, loop, calls, notified, executed>>
    /\ UNCHANGED <<seedVars, playVars>>

\* the 1000 ms timer of line 405 runs
GatherFires(t) ==
    /\ UNCHANGED sessionVars
    /\ BagIn(t, timers) /\ t.kind = "gatherMusicInfoRequest"
    /\ timers' = timers (-) One(t)
    /\ executed' = executed \cup {"gatherMusicInfoRequest"}
    /\ UNCHANGED <<jwt, spotify_refresh_token, fetchTimeout, handlers,
                   accessInfo, lastStatus, loop, calls, notified>>
    /\ UNCHANGED <<seedVars, listVars, playVars>>

InitLists ==
    /\ rawPlaylists = <<>>
    /\ origRawPlaylistOrder = <<>>
    /\ currentDevices = Result(0, <<>>)
    /\ passes = <<>>

(***************************************************************************)
(* playSelectedItem (MusicPlaylistProvider.ts 46-239)                      *)
(***************************************************************************)
SPOTIFY_LIKED_SONGS_PLAYLIST_NAME == "Liked Songs"
PLAYLISTS_PROVIDER == "playlists"

Item(type, id, name, playerType, playlist_id, position) ==
    [type |-> type, id |-> id, name |-> name, playerType |-> playerType,
     playlist_id |-> playlist_id, position |-> position]
NoItem == Item("none", "", "", "none", "", "")

Mix == Item("playlist", "mix", "Mix", "WebSpotify", "", "")
LikedSongs ==
    Item("playlist", "liked", SPOTIFY_LIKED_SONGS_PLAYLIST_NAME, "WebSpotify",
         "", "")
ItunesList == Item("playlist", "itl", "Library", "MacItunesDesktop", "", "")
PlaylistItems == {Mix, LikedSongs, ItunesList}

\* the track each playlist holds
TrackOf(pl) ==
    Item("track", "t-" \o pl.id, "song", pl.playerType, pl.id,
         IF pl.playerType = "MacItunesDesktop" THEN "2" ELSE "")
TrackItems == {TrackOf(pl) : pl \in PlaylistItems}

\* musicMgr.getPlaylistById
PlaylistById(id) == CHOOSE pl \in PlaylistItems : pl.id = id

\* what musicMgr.launchConfirm answers
NoInfo == [proceed |-> FALSE, isLaunching |-> FALSE, playerName |-> "SpotifyWeb"]
LaunchInfos ==
    {NoInfo} \cup
    [proceed : {TRUE}, isLaunching : BOOLEAN,
     playerName : {"SpotifyDesktop", "SpotifyWeb"}]

\* what getPlaylistItemTracksForPlaylistId answers: null, or a list
TrackList(isNull, items) == [isNull |-> isNull, items |-> items]
NoTracks == TrackList(TRUE, <<>>)
TrackLists(pl) == {NoTracks, TrackList(FALSE, <<>>), TrackList(FALSE, <<TrackOf(pl)>>)}

\* lines 115-116
SelectedTrackOf(tracks) ==
    IF ~tracks.isNull /\ Len(tracks.items) > 0 THEN tracks.items[1] ELSE NoItem
NeverAborts(selectedTrack) == FALSE
\* line 118
Aborts(selectedTrack) == selectedTrack = NoItem

\* a play command as a backend receives it; by is the request that led to it
Command(backend, track, container, by, deferred) ==
    [backend |-> backend, track |-> track, container |-> container,
     by |-> by, deferred |-> deferred]

BackendDesktopFirst(item, info) ==
    IF info.playerName = "SpotifyDesktop" THEN "desktop"
    ELSE IF item.playerType = "MacItunesDesktop" THEN "itunes"
    ELSE "web"
\* lines 79, 85, 126, 144, 159: the backend a request is routed to
Backend(item, info) ==
    IF item.playerType = "MacItunesDesktop" THEN "itunes"
    ELSE IF info.playerName = "SpotifyDesktop" THEN "desktop"
    ELSE "web"

\* lines 79-84 against 88, 96, 128, 142: the command waits for launchTimeout
Deferred(item, info, isTrack) ==
    info.isLaunching /\ ~(isTrack /\ item.playerType = "MacItunesDesktop")

\* the command a backend call issues from the selection sp, st it reads:
\* playItunesTrackNumberInPlaylist (81, 130, 136),
\* playSpotifyDesktopPlaylistTrack (183-200),
\* launchAndPlaySpotifyWebPlaylistTrack (211-239)
CommandFor(backend, isTrack, sp, st, pos, by, deferred) ==
    IF backend = "itunes"
    THEN Command("itunes", pos, sp.name, by, deferred)
    ELSE IF backend = "desktop"
    THEN IF sp.name = SPOTIFY_LIKED_SONGS_PLAYLIST_NAME
         THEN Command("desktop", st.id, "", by, deferred)
         ELSE Command("desktop", st.id, sp.id, by, deferred)
    ELSE IF isTrack \/ sp.name = SPOTIFY_LIKED_SONGS_PLAYLIST_NAME
         THEN Command("web", st.id, sp.id, by, deferred)
         ELSE Command("web", "", sp.id, by, deferred)

PlayTimer(backend, isTrack, by) ==
    Timer(backend, launchTimeout, "none", 0, by, isTrack)
RefreshTimer(by) == Timer("refreshPlaylist", launchTimeout, "none", 0, by, FALSE)

AlwaysRefreshes(info) == TRUE
\* line 171: the list refresh is armed only while a backend is launching
Refreshes(info) == info.isLaunching

\* line 80: playlistItem.position || 1
PositionOf(item) == IF item.position = "" THEN "1" ELSE item.position

\* lines 79-103 and 126-167, then 171-176: route the request r to a backend,
\* now or after launchTimeout, reading the selection sp, st just written
Dispatch(r, isTrack, sp, st) ==
    LET item == requests[r].item
        info == requests'[r].info
        backend == Backend(item, info)
        pos == IF isTrack THEN PositionOf(item) ELSE "1"
        refresh == IF Refreshes(info) THEN One(RefreshTimer(r)) ELSE EmptyBag
    IN  IF Deferred(item, info, isTrack)
        THEN /\ timers' = timers (+) One(PlayTimer(backend, isTrack, r))
                                  (+) refresh
             /\ commands' = commands
        ELSE /\ timers' = timers (+) refresh
             /\ commands' = Append(commands,
                    CommandFor(backend, isTrack, sp, st, pos, r, FALSE))

\* the requests whose deferred play callback is pending in tm
PendingPlays(tm) ==
    {t.by : t \in {u \in BagToSet(tm) : u.kind \in {"itunes", "desktop", "web"}}}

\* a selection in the tree view: lines 51-52, up to the awaits.
\* A request records what it found when it was called: the selection, the
\* provider and the loading state (before), whether an earlier request was
\* still running (busy), and the requests whose play callback was pending.
PlaySelectedItem(item, isExpand) ==
    /\ UNCHANGED sessionVars
    /\ Len(requests) < MaxRequests
    /\ requests' = Append(requests,
           [item |-> item, isExpand |-> isExpand, pc |-> "confirm",
            info |-> NoInfo, tracks |-> NoTracks,
            before |-> <<selectedPlaylist, selectedTrackItem, currentProvider,
                         loading>>,
            busy |-> \E q \in 1..Len(requests) : requests[q].pc # "done",
            pending |-> PendingPlays(timers)])
    /\ UNCHANGED <<selectedPlaylist, selectedTrackItem, currentProvider,
                   loading, commands>>
    /\ UNCHANGED <<pollVars, seedVars, listVars>>

\* launchConfirm answers: lines 53-112
ConfirmReturns(r, info) ==
    /\ UNCHANGED sessionVars
    /\ r \in 1..Len(requests) /\ requests[r].pc = "confirm"
    /\ LET item == requests[r].item
       IN  IF ~info.proceed
           THEN /\ requests' = [requests EXCEPT ![r].pc = "done",
                                                ![r].info = info]
                /\ UNCHANGED <<selectedPlaylist, selectedTrackItem,
                               currentProvider, loading, commands, timers>>
           ELSE /\ loading' = TRUE
                /\ currentProvider' = PLAYLISTS_PROVIDER
                /\ IF item.type = "track"
                   THEN /\ selectedTrackItem' = item
                        /\ selectedPlaylist' = selectedPlaylist
                        /\ IF selectedPlaylist = NoItem
                           THEN /\ requests' = [requests EXCEPT
                                       ![r].pc = "playlist", ![r].info = info]
                                /\ UNCHANGED <<commands, timers>>
                           ELSE /\ requests' = [requests EXCEPT
                                       ![r].pc = "done", ![r].info = info]
                                /\ Dispatch(r, TRUE, selectedPlaylist, item)
                   ELSE /\ selectedPlaylist' = item
                        /\ selectedTrackItem' = selectedTrackItem
                        /\ commands' = commands
                        /\ IF requests[r].isExpand
                           THEN /\ requests' = [requests EXCEPT
                                       ![r].pc = "done", ![r].info = info]
                                /\ timers' = timers (+)
                                       (IF Refreshes(info)
                                        THEN One(RefreshTimer(r))
                                        ELSE EmptyBag)
                           ELSE /\ requests' = [requests EXCEPT
                                       ![r].pc = "tracks", ![r].info = info]
                                /\ timers' = timers
    /\ UNCHANGED <<jwt, spotify_refresh_token, fetchTimeout, handlers,
                   accessInfo, lastStatus, loop, calls, notified, executed>>
    /\ UNCHANGED <<seedVars, listVars>>

\* getPlaylistById answers: lines 76-103, 171-176
PlaylistReturns(r) ==
    /\ UNCHANGED sessionVars
    /\ r \in 1..Len(requests) /\ requests[r].pc = "playlist"
    /\ requests' = [requests EXCEPT ![r].pc = "done"]
    /\ selectedPlaylist' = PlaylistById(requests[r].item.playlist_id)
    /\ Dispatch(r, TRUE, selectedPlaylist', selectedTrackItem)
    /\ UNCHANGED <<selectedTrackItem, currentProvider, loading>>
    /\ UNCHANGED <<jwt, spotify_refresh_token, fetchTimeout, handlers,
                   accessInfo, lastStatus, loop, calls, notified, executed>>
    /\ UNCHANGED <<seedVars, listVars>>

\* getPlaylistItemTracksForPlaylistId answers: lines 115-176
TracksReturn(r, tracks) ==
    /\ UNCHANGED sessionVars
    /\ r \in 1..Len(requests) /\ requests[r].pc = "tracks"
    /\ requests' = [requests EXCEPT ![r].pc = "done", ![r].tracks = tracks]
    /\ IF Aborts(SelectedTrackOf(tracks))
       THEN UNCHANGED <<selectedTrackItem, commands, timers>>
       ELSE /\ selectedTrackItem' = SelectedTrackOf(tracks)
            /\ Dispatch(r, FALSE, selectedPlaylist, selectedTrackItem')
    /\ UNCHANGED <<selectedPlaylist, currentProvider, loading>>
    /\ UNCHANGED <<jwt, spotify_refresh_token, fetchTimeout, handlers,
                   accessInfo, lastStatus, loop, calls, notified, executed>>
    /\ UNCHANGED <<seedVars, listVars>>

\* a deferred play callback runs (lines 89, 97, 129, 147, 151)
PlayTimerFires(t) ==
    /\ UNCHANGED sessionVars
    /\ BagIn(t, timers) /\ t.kind \in {"itunes", "desktop", "web"}
    /\ timers' = timers (-) One(t)
    /\ commands' = Append(commands,
           CommandFor(t.kind, t.isTrack, selectedPlaylist, selectedTrackItem,
                      "1", t.by, TRUE))
    /\ UNCHANGED <<selectedPlaylist, selectedTrackItem, currentProvider,
                   loading, requests>>
    /\ UNCHANGED <<jwt, spotify_refresh_token, fetchTimeout, handlers,
                   accessInfo, lastStatus, loop, calls, notified, executed>>
    /\ UNCHANGED <<seedVars, listVars>>

\* the list-refresh timer of line 172 runs
RefreshFires(t) ==
    /\ UNCHANGED sessionVars
    /\ BagIn(t, timers) /\ t.kind = "refreshPlaylist"
    /\ timers' = timers (-) One(t)
    /\ executed' = executed \cup {"musictime.refreshPlaylist"}
    /\ UNCHANGED <<jwt, spotify_refresh_token, fetchTimeout, handlers,
                   accessInfo, lastStatus, loop, calls, notified>>
    /\ UNCHANGED <<seedVars, listVars, playVars>>

InitPlay ==
    /\ selectedPlaylist = NoItem
    /\ selectedTrackItem = NoItem
    /\ currentProvider = "none"
    /\ loading = FALSE
    /\ requests = <<>>
    /\ commands = <<>>

\* seedLikedSongSessions run on the list dataMgr holds (line 311)
SeedLikedSongSessions ==
    /\ UNCHANGED sessionVars
    /\ seedPuts = <<>>
    /\ seedPuts' = seedLikedSongSessions(spotifyLikedSongs)
    /\ UNCHANGED <<spotifyLikedSongs, seedDone>>
    /\ UNCHANGED <<pollVars, listVars, playVars>>

(***************************************************************************)
(* serverIsAvailable (DataController.ts 76-91)                             *)
(***************************************************************************)
\* cacheMgr.get of a key that holds nothing (never set, or expired)
NOTHING == "nothing"
\* a cached or returned boolean is written as a string
YES == "true"
NO == "false"
CacheValues == {NOTHING, YES, NO}

\* line 77: cacheMgr.get("serverAvailable") || null, with JavaScript's ||:
\* a falsy entry (undefined, or a cached false) reads as null
GetOrNull(v) == IF v = YES THEN YES ELSE NULL

\* how softwareGet("/ping") ends: a response isResponseOk accepts, one it
\* refuses, or a rejection
PingOutcomes == {"ok", "failed", "rejected"}
\* lines 80-85
PingResult(outcome) == IF outcome = "ok" THEN YES ELSE NO

\* a call from its start to the await of line 79, or to its return when the
\* entry is read as a value (lines 77-78, 87-90). A call records the entry
\* it found, whether it issued the ping, and what it returned.
ServerIsAvailable ==
    /\ Len(availCalls) < MaxAvail
    /\ IF GetOrNull(cache) = NULL
       THEN /\ availCalls' = Append(availCalls,
                   [pc |-> "ping", found |-> cache, pinged |-> TRUE,
                    result |-> NULL])
            /\ cache' = cache
       ELSE /\ availCalls' = Append(availCalls,
                   [pc |-> "done", found |-> cache, pinged |-> FALSE,
                    result |-> GetOrNull(cache)])
            /\ cache' = GetOrNull(cache)
    /\ UNCHANGED <<authCallbackState, events>>
    /\ UNCHANGED <<pollVars, seedVars, listVars, playVars>>

\* the ping settles: lines 80-90
PingReturns(k, outcome) ==
    /\ k \in 1..Len(availCalls) /\ availCalls[k].pc = "ping"
    /\ availCalls' = [availCalls EXCEPT ![k].pc = "done",
                                        ![k].result = PingResult(outcome)]
    /\ cache' = PingResult(outcome)
    /\ UNCHANGED <<authCallbackState, events>>
    /\ UNCHANGED <<pollVars, seedVars, listVars, playVars>>

\* the short time-to-live of the session cache runs out
CacheExpires ==
    /\ cache # NOTHING
    /\ cache' = NOTHING
    /\ UNCHANGED <<availCalls, authCallbackState, events>>
    /\ UNCHANGED <<pollVars, seedVars, listVars, playVars>>

(***************************************************************************)
(* handleIntegrationConnectionSocketEvent (integration_connection.ts)      *)
(***************************************************************************)
SLACK_ID == 14
SPOTIFY_ID == 12
OTHER_ID == 7
EventRefreshDelay == 1000
IntegrationIds == {SLACK_ID, SPOTIFY_ID, OTHER_ID}
EventActions == {"add", "update", "remove"}
\* an auth callback state stored by a connect flow that is under way
PENDING == "pending"

AnyAction(action) == TRUE
\* line 20
IsAdd(action) == action = "add"

EventRefreshTimer(e) ==
    Timer("refreshPlaylist", EventRefreshDelay, "none", 0, e, FALSE)

\* a socket event arrives: lines 13-15, up to the await on getUser.
\* An event records, in order, what its handler has done (log).
HandleIntegrationConnectionSocketEvent(id, action) ==
    /\ Len(events) < MaxEvents
    /\ events' = Append(events,
           [id |-> id, action |-> action, pc |-> "getUser", log |-> <<>>])
    /\ UNCHANGED <<cache, availCalls, authCallbackState>>
    /\ UNCHANGED <<pollVars, seedVars, listVars, playVars>>

\* getUser answers: lines 17-18, or 34-39, up to the next await
UserReturns(e) ==
    /\ e \in 1..Len(events) /\ events[e].pc = "getUser"
    /\ IF events[e].id = SLACK_ID
       THEN /\ events' = [events EXCEPT ![e].pc = "getSlackAuth"]
            /\ UNCHANGED authCallbackState
       ELSE IF events[e].id = SPOTIFY_ID
       THEN /\ authCallbackState' = NULL
            /\ events' = [events EXCEPT
                   ![e].pc = "updateSpotifyIntegration",
                   ![e].log = @ \o <<"setAuthCallbackState",
                                     "updateSpotifyIntegration">>]
       ELSE /\ events' = [events EXCEPT ![e].pc = "done"]
            /\ UNCHANGED authCallbackState
    /\ UNCHANGED <<cache, availCalls>>
    /\ UNCHANGED <<pollVars, seedVars, listVars, playVars>>

\* getSlackAuth answers: lines 20-32, up to the await on updateSlackIntegrations
SlackAuthReturns(e) ==
    /\ e \in 1..Len(events) /\ events[e].pc = "getSlackAuth"
    /\ IF IsAdd(events[e].action)
       THEN /\ authCallbackState' = NULL
            /\ notified' = [notified EXCEPT !["slack"] = @ + 1]
            /\ timers' = timers (+) One(EventRefreshTimer(e))
            /\ events' = [events EXCEPT
                   ![e].pc = "updateSlackIntegrations",
                   ![e].log = @ \o <<"setAuthCallbackState",
                                     "showInformationMessage", "setTimeout",
                                     "updateSlackIntegrations">>]
       ELSE /\ events' = [events EXCEPT
                   ![e].pc = "updateSlackIntegrations",
                   ![e].log = @ \o <<"updateSlackIntegrations">>]
            /\ UNCHANGED <<authCallbackState, notified, timers>>
    /\ UNCHANGED <<cache, availCalls>>
    /\ UNCHANGED <<jwt, spotify_refresh_token, fetchTimeout, handlers,
                   accessInfo, lastStatus, loop, calls, executed>>
    /\ UNCHANGED <<seedVars, listVars, playVars>>

\* updateSlackIntegrations completes: the handler returns
SlackIntegrationsUpdated(e) ==
    /\ e \in 1..Len(events) /\ events[e].pc = "updateSlackIntegrations"
    /\ events' = [events EXCEPT ![e].pc = "done"]
    /\ UNCHANGED <<cache, availCalls, authCallbackState>>
    /\ UNCHANGED <<pollVars, seedVars, listVars, playVars>>

\* updateSpotifyIntegration completes: line 41
SpotifyIntegrationUpdated(e) ==
    /\ e \in 1..Len(events) /\ events[e].pc = "updateSpotifyIntegration"
    /\ events' = [events EXCEPT
           ![e].pc = "done",
           ![e].log = @ \o <<"updateSpotifyIntegration completed",
                             "processNewSpotifyIntegration">>]
    /\ UNCHANGED <<cache, availCalls, authCallbackState>>
    /\ UNCHANGED <<pollVars, seedVars, listVars, playVars>>

InitSession ==
    /\ cache = NOTHING
    /\ availCalls = <<>>
    /\ authCallbackState = NULL
    /\ events = <<>>

vars == <<pollVars, seedVars, listVars, playVars, sessionVars>>

InitPoll ==
    /\ fetchTimeout = [c \in Conds |-> NULL]
    /\ timers = EmptyBag
    /\ handlers = EmptyBag
    /\ accessInfo = [spotify |-> FALSE, slack |-> FALSE]
    /\ lastStatus = NoStatus
    /\ loop = [c \in Conds |-> NoLoop]
    /\ calls = 0
    /\ notified = [c \in Conds |-> 0]
    /\ executed = {}

InitRest ==
    /\ InitPoll
    /\ InitLists
    /\ InitPlay
    /\ InitSession

\* the stored tokens are whatever an earlier session left
Init ==
    /\ jwt \in BOOLEAN
    /\ spotify_refresh_token \in BOOLEAN
    /\ InitRest
    /\ spotifyLikedSongs = NoLiked
    /\ seedPuts = <<>>
    /\ seedDone = {}

\* what getSpotifyLikedSongs hands populateLikedSongs after a connect: nothing
\* or one track; it is fetched only once the user is logged on
FetchedLiked(resp) ==
    IF UserStatusOf(resp).raised \/ ~UserStatusOf(resp).loggedOn
    THEN {NoLiked}
    ELSE {NoLiked, Liked(1)}

Next ==
    \/ \E c \in Conds, n \in 0..MaxTry : CallRefetch(c, n)
    \/ \E t \in BagToSet(timers) : SlackTimerFires(t)
    \/ \E h \in BagToSet(handlers), u \in UserResps : SlackHandlerResumes(h, u)
    \/ \E t \in BagToSet(timers) : SpotifyTimerFires(t)
    \/ \E h \in BagToSet(handlers), r \in HandlerResps :
           \E l \in FetchedLiked(r) : SpotifyHandlerResumes(h, r, l)
    \/ HardRefreshFires

Spec == Init /\ [][Next]_vars

\* a session that holds a jwt
InitSignedIn ==
    /\ jwt = TRUE
    /\ spotify_refresh_token = FALSE
    /\ InitRest
    /\ spotifyLikedSongs = NoLiked
    /\ seedPuts = <<>>
    /\ seedDone = {}

\* playlist population
NextLists ==
    \/ PopulateSpotifyPlaylists
    \/ \E t \in BagToSet(timers) : RetryFires(t)
    \/ \E p \in 1..Len(passes), d \in DeviceResults : DevicesReturn(p, d)
    \/ \E p \in 1..Len(passes), res \in FetchResults : PlaylistsReturn(p, res)
    \/ \E t \in BagToSet(timers) : GatherFires(t)
SpecLists == InitSignedIn /\ [][NextLists]_vars

\* playback selection
NextPlay ==
    \/ \E item \in PlaylistItems, isExpand \in BOOLEAN :
           PlaySelectedItem(item, isExpand)
    \/ \E item \in TrackItems : PlaySelectedItem(item, FALSE)
    \/ \E r \in 1..Len(requests), info \in LaunchInfos : ConfirmReturns(r, info)
    \/ \E r \in 1..Len(requests) : PlaylistReturns(r)
    \/ \E r \in 1..Len(requests) :
           \E tracks \in TrackLists(requests[r].item) : TracksReturn(r, tracks)
    \/ \E t \in BagToSet(timers) : PlayTimerFires(t)
    \/ \E t \in BagToSet(timers) : RefreshFires(t)
SpecPlay == InitSignedIn /\ [][NextPlay]_vars

\* liked-song seeding on every list length
InitSeed ==
    /\ jwt = TRUE
    /\ spotify_refresh_token = FALSE
    /\ InitRest
    /\ spotifyLikedSongs \in {NoLiked} \cup {Liked(n) : n \in 0..MaxLiked}
    /\ seedPuts = <<>>
    /\ seedDone = {}
NextSeed ==
    \/ SeedLikedSongSessions
    \/ \E i \in 1..Len(seedPuts) : SeedPutCompletes(i)
SpecSeed == InitSeed /\ [][NextSeed]_vars

\* the connection-check loops of a session in which neither connection is
\* ever found: every getUser answer holds no auth record, every user-status
\* answer is a failure, or a state with no auth record (state OK with no user
\* makes the fetch raise). The event loop runs
\* every due timer and every remote call is answered (softwareGet settles
\* on a response or a caught error), hence the weak fairness.
UnmetUserResps == {u \in UserResps : u.auths = <<>>}
UnmetResps ==
    {r \in HandlerResps :
        /\ UserStatusOf(r).raised \/ ~UserStatusOf(r).loggedOn
        /\ r.user.auths = <<>>
        /\ r.state = "ANONYMOUS" => (r.user.present /\ ~r.jwt)}
NextUnmet ==
    \/ \E c \in Conds, n \in 0..MaxTry : CallRefetch(c, n)
    \/ \E t \in BagToSet(timers) : SlackTimerFires(t)
    \/ \E h \in BagToSet(handlers), u \in UnmetUserResps :
           SlackHandlerResumes(h, u)
    \/ \E t \in BagToSet(timers) : SpotifyTimerFires(t)
    \/ \E h \in BagToSet(handlers), r \in UnmetResps :
           SpotifyHandlerResumes(h, r, NoLiked)
FairUnmet ==
    /\ WF_vars(\E t \in BagToSet(timers) : SlackTimerFires(t))
    /\ WF_vars(\E t \in BagToSet(timers) : SpotifyTimerFires(t))
    /\ WF_vars(\E h \in BagToSet(handlers), u \in UnmetUserResps :
                  SlackHandlerResumes(h, u))
    /\ WF_vars(\E h \in BagToSet(handlers), r \in UnmetResps :
                  SpotifyHandlerResumes(h, r, NoLiked))
SpecUnmet == Init /\ [][NextUnmet]_vars /\ FairUnmet

\* the reachability check
NextCache ==
    \/ ServerIsAvailable
    \/ \E k \in 1..Len(availCalls), o \in PingOutcomes : PingReturns(k, o)
    \/ CacheExpires
SpecCache == InitSignedIn /\ [][NextCache]_vars

\* integration-connection events arriving while a connect flow is under way
InitEvents ==
    /\ jwt = TRUE
    /\ spotify_refresh_token = FALSE
    /\ InitPoll
    /\ InitLists
    /\ InitPlay
    /\ spotifyLikedSongs = NoLiked
    /\ seedPuts = <<>>
    /\ seedDone = {}
    /\ cache = NOTHING
    /\ availCalls = <<>>
    /\ authCallbackState = PENDING
    /\ events = <<>>
NextEvents ==
    \/ \E id \in IntegrationIds, action \in EventActions :
           HandleIntegrationConnectionSocketEvent(id, action)
    \/ \E e \in 1..Len(events) : UserReturns(e)
    \/ \E e \in 1..Len(events) : SlackAuthReturns(e)
    \/ \E e \in 1..Len(events) : SlackIntegrationsUpdated(e)
    \/ \E e \in 1..Len(events) : SpotifyIntegrationUpdated(e)
    \/ \E t \in BagToSet(timers) : RefreshFires(t)
SpecEvents == InitEvents /\ [][NextEvents]_vars

\* the user-status fetch on every response
NextStatus == \E r \in StateResps : GetMusicTimeUserStatus(r)
SpecStatus == Init /\ [][NextStatus]_vars

(***************************************************************************)
(* Properties                                                              *)
(***************************************************************************)
DonePasses == {p \in 1..Len(passes) : passes[p].pc = "done"}
FailedPasses == {p \in DonePasses : passes[p].status >= 400}

\* C1: a pass of populateSpotifyPlaylists whose playlist fetch returned a
\* status >= 400 leaves rawPlaylists and origRawPlaylistOrder as it found
\* them when it was called.
C1_ListsKeptOnError ==
    \A p \in FailedPasses : passes[p].after = passes[p].before

SeedCalled == seedPuts # <<>>
BatchSizes == [i \in 1..Len(seedPuts) |-> Len(seedPuts[i])]

\* C2: seeding 65 liked tracks issues exactly 3 requests, carrying 30, 30
\* and 5 tracks in that order.
C2_SixtyFiveInThree ==
    (SeedCalled /\ spotifyLikedSongs = Liked(65)) => BatchSizes = <<30, 30, 5>>

\* C3: every request sent to /music/session/seed carries at most 30 tracks.
C3_BatchAtMost30 ==
    \A i \in 1..Len(seedPuts) : Len(seedPuts[i]) <= batch_size

\* a finished play request on a playlist whose track list came back empty
EmptyPlay(r) ==
    /\ requests[r].pc = "done"
    /\ requests[r].item.type = "playlist"
    /\ ~requests[r].isExpand
    /\ requests[r].info.proceed
    /\ SelectedTrackOf(requests[r].tracks) = NoItem
PlayKinds == {"itunes", "desktop", "web"}

\* C4: a confirmed play request on a playlist whose fetched track list is
\* empty or null issues no play command, immediately or from a timer, and
\* none of its steps changes selectedTrackItem.
C4_EmptyPlaylistPlay ==
    /\ [](\A r \in 1..Len(requests) : EmptyPlay(r) =>
            /\ \A i \in 1..Len(commands) : commands[i].by # r
            /\ \A t \in BagToSet(timers) : t.kind \in PlayKinds => t.by # r)
    /\ [][\A r \in 1..Len(requests) :
            /\ (requests[r].pc = "tracks" /\ EmptyPlay(r)') =>
                  /\ selectedTrackItem' = selectedTrackItem
                  /\ commands' = commands
                  /\ timers' = timers
            /\ (requests[r].pc = "confirm" /\ requests'[r].pc # "confirm"
                /\ requests[r].item.type = "playlist") =>
                  selectedTrackItem' = selectedTrackItem]_vars

C4_Witness ==
    \E r \in 1..Len(requests) :
        /\ EmptyPlay(r)
        /\ selectedTrackItem # NoItem
        /\ selectedPlaylist = requests[r].item

\* a loop that ran alone and has ended without its condition being met
EndedUnmet(c) == loop[c].solo /\ ~loop[c].met /\ Idle(c)

\* C5: a connection-check loop started with tryCountUntilFound = 2 whose
\* condition is never met reschedules exactly 2 checks and then stops.
C5_TwoReschedules ==
    \A c \in Conds :
        /\ (loop[c].start = 2 /\ loop[c].solo) => loop[c].resched <= 2
        /\ (loop[c].start = 2 /\ EndedUnmet(c)) => loop[c].resched = 2

Fetched == lastStatus.called /\ lastStatus.fetched
WithData == Fetched /\ lastStatus.resp.ok /\ lastStatus.resp.data
Returned(loggedOn, state) ==
    lastStatus.result = [raised |-> FALSE, loggedOn |-> loggedOn, state |-> state]
SpotifyAuthReturned ==
    /\ lastStatus.resp.user.present
    /\ HasSpotifyAuth(lastStatus.resp.user.auths)

\* C6: with a token and a successful response, state OK with a spotify auth
\* that has an access_token yields {loggedOn: true, state: OK}; state
\* ANONYMOUS yields {loggedOn: false, state: ANONYMOUS}; an absent state
\* yields {loggedOn: false, state: UNKNOWN}.
C6_Classification ==
    WithData =>
        /\ (lastStatus.resp.state = "OK" /\ SpotifyAuthReturned) =>
              Returned(TRUE, "OK")
        /\ lastStatus.resp.state = "ANONYMOUS" => Returned(FALSE, "ANONYMOUS")
        /\ lastStatus.resp.state = ABSENT => Returned(FALSE, "UNKNOWN")

C6_Witness ==
    /\ WithData
    /\ lastStatus.resp.state = "OK"
    /\ SpotifyAuthReturned
    /\ Returned(TRUE, "OK")

\* C7 as claimed: for every state, loggedOn is true exactly when the returned
\* records contain a spotify auth.
C7_AnyState ==
    WithData => (lastStatus.result.loggedOn <=> SpotifyAuthReturned)

\* C7: loggedOn is true exactly when the state is OK and the returned records
\* contain a spotify auth that has an access_token; for every other state it
\* is false whatever the records hold.
C7_OnlyWhenOK ==
    (lastStatus.called /\ ~lastStatus.result.raised) =>
        (lastStatus.result.loggedOn <=>
            (WithData /\ lastStatus.resp.state = "OK" /\ SpotifyAuthReturned))

C7_Witness ==
    /\ WithData
    /\ lastStatus.resp.state = "ANONYMOUS"
    /\ SpotifyAuthReturned
    /\ Returned(FALSE, "ANONYMOUS")

\* C8: getMusicTimeUserStatus never raises: on every response it returns a
\* {loggedOn, state} value.
C8_NeverRaises ==
    lastStatus.called => ~lastStatus.result.raised

\* C9: each condition has at most one check timer outstanding, and a call of
\* refetch*ConnectStatusLazily made while that timer is pending (by an
\* outside caller with any count, or by a handler) changes neither the handle
\* nor the pending timer and its count.
C9_SingleTimer ==
    /\ [](\A c \in Conds : CountCond(timers, c) <= 1)
    /\ [][\A c \in Conds :
            (/\ fetchTimeout[c] # NULL
             /\ \/ calls' # calls
                \/ CountCond(handlers', c) < CountCond(handlers, c)) =>
                  /\ fetchTimeout'[c] = fetchTimeout[c]
                  /\ CondPart(timers', c) = CondPart(timers, c)]_vars

C9_Witness ==
    \E c \in Conds :
        /\ loop[c].suppressed
        /\ fetchTimeout[c] # NULL
        /\ CountCond(timers, c) = 1

RetryTimers == KindPart(timers, "populateSpotifyPlaylists")
RetryPasses == {p \in 1..Len(passes) : passes[p].origin = "retry"}

\* C10: a pass whose playlist fetch returned a status >= 400 arms exactly one
\* retry, a timer of 3000 ms that runs populateSpotifyPlaylists again; a pass
\* whose fetch succeeded, or has not answered yet, arms none.
C10_OneRetryPerFailure ==
    /\ \A p \in 1..Len(passes) :
           passes[p].retries = IF p \in FailedPasses THEN 1 ELSE 0
    /\ \A t \in BagToSet(RetryTimers) :
           t.delay = 3000 /\ t.by \in FailedPasses /\ timers[t] = 1
    /\ BagCardinality(RetryTimers) + Cardinality(RetryPasses)
           = Cardinality(FailedPasses)

C10_Witness ==
    \E p, q \in 1..Len(passes) :
        /\ p \in FailedPasses
        /\ passes[q].origin = "retry"
        /\ q \in DonePasses /\ q \notin FailedPasses
        /\ BagCardinality(RetryTimers) = 0

\* C11: a play command is issued from the 4000 ms launch timer exactly when
\* launchConfirm reported isLaunching, for every item type and backend; with
\* an active device it is issued at once, and no play timer is armed.
C11_DelayIffLaunching ==
    /\ \A i \in 1..Len(commands) :
           commands[i].deferred <=> requests[commands[i].by].info.isLaunching
    /\ \A t \in BagToSet(timers) :
           t.kind \in PlayKinds =>
               t.delay = 4000 /\ requests[t.by].info.isLaunching

\* the requests that reached a backend, at once or through a play timer
Dispatched(r) ==
    \/ \E i \in 1..Len(commands) : commands[i].by = r
    \/ \E t \in BagToSet(timers) : t.kind \in PlayKinds /\ t.by = r
\* request r has just run to its end
Ends(r) == requests[r].pc # "done" /\ requests'[r].pc = "done"
Refreshing(r, tm) == IF BagIn(RefreshTimer(r), tm) THEN tm[RefreshTimer(r)] ELSE 0

\* C12 as claimed: every confirmed request that issues a play command arms a
\* list refresh as it ends, whether or not a backend is being launched.
C12_AlwaysRefreshes ==
    [][\A r \in 1..Len(requests) :
          (Ends(r) /\ Dispatched(r)') => Refreshing(r, timers') = 1]_vars

\* C12: a confirmed request that runs to its end arms one list refresh of
\* 4000 ms exactly when launchConfirm reported isLaunching; a request that
\* plays at once on an active device, one that aborts on an empty track list
\* and one that is not confirmed arm none.
C12_RefreshIffLaunching ==
    [][\A r \in 1..Len(requests) :
          Ends(r) =>
              /\ Refreshing(r, timers) = 0
              /\ Refreshing(r, timers') =
                    IF /\ requests'[r].info.proceed
                       /\ requests'[r].info.isLaunching
                       /\ ~EmptyPlay(r)'
                    THEN 1 ELSE 0
              /\ RefreshTimer(r).delay = 4000]_vars

C12_Witness ==
    \E r, q \in 1..Len(requests) :
        /\ requests[r].pc = "done" /\ requests[r].info.isLaunching
        /\ Dispatched(r) /\ Refreshing(r, timers) = 1
        /\ requests[q].pc = "done" /\ requests[q].info.proceed
        /\ ~requests[q].info.isLaunching
        /\ Dispatched(q) /\ Refreshing(q, timers) = 0

\* C13: a play request on a playlist with zero tracks, run with no other
\* request in its way, leaves selectedPlaylist, selectedTrackItem,
\* currentProvider and the loading state as it found them, and leaves no
\* timer of its own.
C13_AbortNoSideEffects ==
    \A r \in 1..Len(requests) :
        /\ EmptyPlay(r) => \A t \in BagToSet(timers) : t.by # r
        /\ (EmptyPlay(r) /\ r = Len(requests) /\ ~requests[r].busy) =>
               <<selectedPlaylist, selectedTrackItem, currentProvider, loading>>
                   = requests[r].before

\* a confirmed play request that has run to its end without aborting
ReachesCommand(r) ==
    /\ requests[r].pc = "done"
    /\ requests[r].info.proceed
    /\ ~(requests[r].item.type = "playlist" /\ requests[r].isExpand)
    /\ ~EmptyPlay(r)
CommandsBy(r) == {i \in 1..Len(commands) : commands[i].by = r}
PlayTimersBy(r) ==
    [t \in {u \in BagToSet(timers) : u.kind \in PlayKinds /\ u.by = r}
        |-> timers[t]]
\* the backend the priority of the claim gives request r
Priority(r) ==
    IF requests[r].item.playerType = "MacItunesDesktop" THEN "itunes"
    ELSE IF requests[r].info.playerName = "SpotifyDesktop" THEN "desktop"
    ELSE "web"

\* C14: a confirmed play request that reaches a command is routed to exactly
\* one backend (one command, at once or from its one play timer): itunes
\* when the item's playerType is MacItunesDesktop, else desktop when
\* launchConfirm reported SpotifyDesktop, else web; a web command carries the
\* id of the selected playlist.
C14_OneBackendByPriority ==
    /\ [](\A r \in 1..Len(requests) :
            /\ Cardinality(CommandsBy(r)) + BagCardinality(PlayTimersBy(r))
                  = IF ReachesCommand(r) THEN 1 ELSE 0
            /\ \A i \in CommandsBy(r) : commands[i].backend = Priority(r)
            /\ \A t \in BagToSet(PlayTimersBy(r)) : t.kind = Priority(r))
    /\ [][Len(commands') > Len(commands) =>
            LET c == commands'[Len(commands')]
            IN  c.backend = "web" => c.container = selectedPlaylist'.id]_vars

C14_Witness ==
    \E r, q \in 1..Len(requests) :
        /\ ReachesCommand(r) /\ ReachesCommand(q)
        /\ requests[r].item.playerType = "MacItunesDesktop"
        /\ requests[r].info.playerName = "SpotifyDesktop"
        /\ \E i \in CommandsBy(r) : commands[i].backend = "itunes"
        /\ requests[q].info.playerName = "SpotifyWeb"
        /\ \E i \in CommandsBy(q) :
               /\ commands[i].backend = "web"
               /\ commands[i].container = selectedPlaylist.id
               /\ commands[i].container # ""

\* the token the check of condition c needs is stored
Token(c) ==
    IF c = "slack" THEN jwt ELSE HasToken(jwt, spotify_refresh_token)
\* the pending check timer of condition c runs in this step
Fired(c) ==
    /\ CountCond(timers, c) = 1
    /\ CondPart(timers', c) # CondPart(timers, c)
FiredTimer(c) == CHOOSE t \in BagToSet(CondPart(timers, c)) : TRUE

\* C15 as claimed: a check that runs with no token stored issues no remote
\* call and schedules no further check.
C15_NoTokenNoRetry ==
    [][\A c \in Conds :
          (Fired(c) /\ ~Token(c)) =>
              /\ handlers' = handlers
              /\ CountCond(timers', c) = 0]_vars

\* C15: a check that runs with no token stored issues no remote call, shows
\* no notification, and is handled as an unmet condition: it schedules the
\* next check with its count lowered by one when the count is above zero,
\* and none when the count is zero.
C15_NoTokenUnmet ==
    [][\A c \in Conds :
          (Fired(c) /\ ~Token(c)) =>
              /\ handlers' = handlers
              /\ notified' = notified
              /\ IF FiredTimer(c).n > 0
                 THEN /\ CondPart(timers', c)
                           = One(CheckTimer(c, FiredTimer(c).n - 1))
                      /\ fetchTimeout'[c] # NULL
                 ELSE /\ CountCond(timers', c) = 0
                      /\ fetchTimeout'[c] = NULL]_vars

C15_Witness ==
    \E c \in Conds :
        /\ ~Token(c)
        /\ loop[c].start = 2 /\ loop[c].resched = 2
        /\ CountCond(handlers, c) = 0
        /\ Idle(c)

\* the device fetch of pass p answers in this step
DevicesAnswer(p) == passes[p].pc = "devices" /\ passes'[p].pc = "playlists"
GatherTimers(tm) == KindPart(tm, "gatherMusicInfoRequest")

\* C16: a device answer of status 429 leaves currentDevices and the gather
\* timers as they were; any other answer replaces currentDevices by it and
\* arms one gather timer of 1000 ms; nothing else writes currentDevices.
C16_RateLimitedKeepsDevices ==
    /\ [][\A p \in 1..Len(passes) :
            DevicesAnswer(p) =>
                IF passes'[p].devices.status = 429
                THEN /\ currentDevices' = currentDevices
                     /\ timers' = timers
                ELSE /\ currentDevices' = passes'[p].devices
                     /\ GatherTimers(timers')
                           = GatherTimers(timers) (+) One(GatherTimer(p))
                     /\ GatherTimer(p).delay = 1000]_vars
    /\ [][currentDevices' # currentDevices =>
            \E p \in 1..Len(passes) :
                DevicesAnswer(p) /\ passes'[p].devices.status # 429]_vars

C16_Witness ==
    \E p, q \in 1..Len(passes) :
        /\ p < q
        /\ passes[p].pc = "done" /\ BagIn(GatherTimer(p), timers)
        /\ passes[q].pc = "playlists" /\ passes[q].devices.status = 429
        /\ currentDevices = Result(0, <<"device">>)
        /\ ~BagIn(GatherTimer(q), timers)

\* a handler of condition c finds the condition met in this step
FindsMet(c) == ~loop[c].met /\ loop'[c].met

\* C17: the handler that finds its condition met shows the notification
\* once and arms no check (for spotify it also stores the liked songs, seeds
\* them and arms one hard playlist refresh of 2000 ms; for slack it arms
\* nothing); a notification is shown only by such a handler, and a loop that
\* ran alone and found its condition met has no check left.
C17_SuccessOnce ==
    /\ [](\A c \in Conds : (loop[c].solo /\ loop[c].met) => Idle(c))
    /\ [][\A c \in Conds :
            /\ FindsMet(c) =>
                  /\ notified'[c] = notified[c] + 1
                  /\ fetchTimeout' = fetchTimeout
                  /\ KindPart(timers', "check") = KindPart(timers, "check")
                  /\ IF c = "spotify"
                     THEN /\ timers' = timers (+) One(HardRefreshTimer)
                          /\ HardRefreshTimer.delay = 2000
                          /\ seedPuts' = seedPuts \o
                                 seedLikedSongSessions(spotifyLikedSongs')
                     ELSE timers' = timers
            /\ notified'[c] # notified[c] =>
                  /\ notified'[c] = notified[c] + 1
                  /\ loop'[c].met
                  /\ CountCond(handlers', c) = CountCond(handlers, c) - 1]_vars

C17_Witness ==
    /\ loop["spotify"].solo /\ loop["spotify"].met
    /\ loop["spotify"].start = 2 /\ loop["spotify"].resched = 1
    /\ notified["spotify"] = 1
    /\ CopiesIn(HardRefreshTimer, timers) = 1
    /\ spotifyLikedSongs = Liked(1)
    /\ loop["slack"].solo /\ loop["slack"].met /\ notified["slack"] = 1

\* the play timer t was pending when a later selection was made
Stale(t) == \E r \in 1..Len(requests) : t.by \in requests[r].pending
\* the timer t runs in this step
Fires(t) == CopiesIn(t, timers') < CopiesIn(t, timers)

\* C18: a deferred play callback that was pending when a newer selection was
\* made issues no backend play command when it fires.
C18_StaleCallbackNoOp ==
    [][\A t \in BagToSet(timers) :
          (t.kind \in PlayKinds /\ Stale(t) /\ Fires(t)) =>
              commands' = commands]_vars

\* the passes whose playlist fetch answered with no status and no playlist
EmptyPasses ==
    {p \in DonePasses : passes[p].status = 0 /\ passes[p].after = NoLists}

\* C19: in the step where the playlist fetch answers with a list (no status),
\* both raw lists become that list, the empty one included, and no timer is
\* armed; a pass that ended on an empty list has armed no retry.
C19_EmptyResultValid ==
    /\ [](\A p \in EmptyPasses :
            /\ passes[p].retries = 0
            /\ \A t \in BagToSet(RetryTimers) : t.by # p)
    /\ [][\A p \in 1..Len(passes) :
            (passes[p].pc = "playlists" /\ p \in EmptyPasses') =>
                /\ rawPlaylists' = <<>>
                /\ origRawPlaylistOrder' = <<>>
                /\ timers' = timers]_vars

C19_Witness ==
    \E p \in EmptyPasses :
        /\ passes[p].before = <<<<"A">>, <<"A">>>>
        /\ rawPlaylists = <<>>
        /\ origRawPlaylistOrder = <<>>
        /\ BagCardinality(RetryTimers) = 0

\* the checks of condition c that are active: timers pending and handlers
\* awaiting their remote call
ActiveChecks(c) == CountCond(timers, c) + CountCond(handlers, c)

\* C20: under every interleaving of outside calls with the handlers, each
\* condition has at most one active check (a pending timer or a handler
\* awaiting its remote call), so no two handlers of a condition are awaiting
\* at once.
C20_OneActiveCheck ==
    \A c \in Conds :
        /\ ActiveChecks(c) <= 1
        /\ CountCond(handlers, c) <= 1

\* a handler of condition c that holds the count 0 ends in this step
LastHandlerEnds(c) ==
    LET h == [cond |-> c, n |-> 0]
    IN  CopiesIn(h, handlers') < CopiesIn(h, handlers)

\* C21: with the condition never met, for every count passed in, the checks
\* of each condition come to rest for good (no timer pending, no handler
\* awaiting); and the check that runs with the count at zero, whether its
\* fetch is skipped or answered, schedules no further check.
C21_LoopTerminates ==
    /\ <>[](\A c \in Conds : Idle(c))
    /\ [][\A c \in Conds :
            /\ LastHandlerEnds(c) => CondPart(timers', c) = CondPart(timers, c)
            /\ (Fired(c) /\ FiredTimer(c).n = 0) =>
                  CountCond(timers', c) = 0]_vars

C21_Witness ==
    \E c \in Conds :
        /\ Token(c)
        /\ EndedUnmet(c) /\ ~loop[c].raised
        /\ loop[c].start = MaxTry /\ loop[c].resched = MaxTry
        /\ calls = MaxCalls

\* C22: a call that finds a value cached for serverAvailable, true or false,
\* issues no ping and returns that value; a call that pings returns a
\* boolean, false for a refused or rejected ping.
C22_Memoizes ==
    \A k \in 1..Len(availCalls) :
        /\ availCalls[k].found # NOTHING =>
              /\ ~availCalls[k].pinged
              /\ availCalls[k].pc = "done"
              /\ availCalls[k].result = availCalls[k].found
        /\ availCalls[k].pc = "done" => availCalls[k].result \in {YES, NO}

\* what the handler of a finished event has done, by the event's id and action
SpotifyLog ==
    <<"setAuthCallbackState", "updateSpotifyIntegration",
      "updateSpotifyIntegration completed", "processNewSpotifyIntegration">>
SlackAddLog ==
    <<"setAuthCallbackState", "showInformationMessage", "setTimeout",
      "updateSlackIntegrations">>
IsPrefix(a, b) == Len(a) <= Len(b) /\ a = SubSeq(b, 1, Len(a))
\* the handler of event e goes on from its await on getSlackAuth in this step
SlackGoesOn(e) ==
    events[e].pc = "getSlackAuth" /\ events'[e].pc # "getSlackAuth"

\* C23: a spotify event (id 12) clears the auth callback state, then lets
\* updateSpotifyIntegration complete, and only then invokes
\* processNewSpotifyIntegration; a slack event (id 14) runs
\* updateSlackIntegrations for every action, and clears the callback state,
\* shows the notification and arms the 1000 ms playlist refresh only for
\* the action add; an event of any other id does none of these.
C23_EventOrder ==
    /\ [](\A e \in 1..Len(events) :
            /\ events[e].id = SPOTIFY_ID =>
                  /\ IsPrefix(events[e].log, SpotifyLog)
                  /\ events[e].pc = "done" => events[e].log = SpotifyLog
                  /\ events[e].log # <<>> => authCallbackState = NULL
            /\ (events[e].id = SLACK_ID /\ events[e].pc = "done") =>
                  events[e].log = IF events[e].action = "add"
                                  THEN SlackAddLog
                                  ELSE <<"updateSlackIntegrations">>
            /\ events[e].id \notin {SPOTIFY_ID, SLACK_ID} =>
                  events[e].log = <<>>)
    /\ [][\A e \in 1..Len(events) :
            /\ SlackGoesOn(e) =>
                  IF events[e].action = "add"
                  THEN /\ authCallbackState' = NULL
                       /\ notified'["slack"] = notified["slack"] + 1
                       /\ timers' = timers (+) One(EventRefreshTimer(e))
                       /\ EventRefreshTimer(e).delay = 1000
                  ELSE /\ authCallbackState' = authCallbackState
                       /\ notified' = notified
                       /\ timers' = timers
            /\ (events[e].pc # events'[e].pc /\ ~SlackGoesOn(e)) =>
                  /\ notified' = notified
                  /\ timers' = timers
                  /\ authCallbackState' # authCallbackState =>
                        /\ events[e].id = SPOTIFY_ID
                        /\ authCallbackState' = NULL]_vars

C23_Witness ==
    \E e, f \in 1..Len(events) :
        /\ events[e].id = SLACK_ID /\ events[e].action = "update"
        /\ events[e].pc = "done"
        /\ events[e].log = <<"updateSlackIntegrations">>
        /\ authCallbackState = NULL
        /\ events[f].id = SPOTIFY_ID /\ events[f].pc = "done"
        /\ events[f].log[4] = "processNewSpotifyIntegration"
        /\ notified["slack"] = 0

\* the batches of a sequence of requests, joined in send order
RECURSIVE Joined(_)
Joined(puts) ==
    IF puts = <<>> THEN <<>> ELSE Head(puts) \o Joined(Tail(puts))
\* the tracks of a liked-song list, none for a missing one
TracksOf(likedSongs) ==
    IF likedSongs.present THEN likedSongs.tracks ELSE <<>>

\* C24: the batches sent for a liked-song list, joined in send order, are
\* the list itself, and no batch is empty; a missing or empty list sends
\* nothing.
C24_BatchesPartition ==
    /\ Joined(seedLikedSongSessions(spotifyLikedSongs))
          = TracksOf(spotifyLikedSongs)
    /\ SeedCalled =>
          /\ Joined(seedPuts) = TracksOf(spotifyLikedSongs)
          /\ \A i \in 1..Len(seedPuts) : seedPuts[i] # <<>>
    /\ TracksOf(spotifyLikedSongs) = <<>> => seedPuts = <<>>

C24_Witness ==
    /\ spotifyLikedSongs = Liked(MaxLiked)
    /\ Len(seedPuts) = 3
    /\ Joined(seedPuts) = spotifyLikedSongs.tracks
    /\ Len(seedPuts[3]) < batch_size

\* every playlist fetch answered so far has failed
AllFailing == DonePasses # {} /\ DonePasses = FailedPasses
\* no pass is waiting for an answer
NoPassRunning == DonePasses = 1..Len(passes)

\* C26: every failing pass arms one more retry, a retried pass included and
\* whatever retries are already pending: the retry timers pending are the
\* failed passes less those already retried, and while every fetch has
\* failed and no pass is running a retry is pending, so the chain has not
\* ended.
C26_RetryUnbounded ==
    /\ \A p \in FailedPasses : passes[p].retries = 1
    /\ BagCardinality(RetryTimers)
          = Cardinality(FailedPasses) - Cardinality(RetryPasses)
    /\ (AllFailing /\ RetryPasses = {}) =>
           BagCardinality(RetryTimers) = Cardinality(DonePasses)
    /\ (AllFailing /\ NoPassRunning) => BagCardinality(RetryTimers) >= 1

C26_Witness ==
    \E p, q \in FailedPasses :
        /\ p < q
        /\ passes[p].origin = "call"
        /\ passes[q].origin = "retry"
        /\ NoPassRunning
        /\ BagIn(RetryTimer(q), timers)

\* the seed requests issued and not yet completed
InFlight == Len(seedPuts) - Cardinality(seedDone)

\* C27: at most one seed request is in flight at any time.
C27_OneInFlight == InFlight <= 1

\* C25: when a desktop or web play command is issued for a selected track
\* item, selectedPlaylist is the playlist that owns selectedTrackItem, and
\* the request's track belongs to it.
C25_PlaylistOwnsTrack ==
    [][Len(commands') > Len(commands) =>
          LET c == commands'[Len(commands')]
              item == requests'[c.by].item
          IN  (c.backend \in {"desktop", "web"} /\ item.type = "track") =>
                  /\ selectedTrackItem'.playlist_id = selectedPlaylist'.id
                  /\ item.playlist_id = selectedPlaylist'.id]_vars
=============================================================================
